---- MODULE Spec2Model ----
(***************************************************************************)
(* Model of overscan_margins.py: the Inkscape effect that adds a layer     *)
(* with one compound path shading the overscan margins of the drawing.     *)
(*                                                                         *)
(* Numbers.  The script works on Python floats.  A float x is modelled by  *)
(* the integer x * Scale (fixed point, Scale = 800 units per 1.0).  The    *)
(* inputs are chosen so that the exact value of every product, quotient    *)
(* and difference the script computes is a whole number of these units.    *)
(* Where such a value falls halfway between two hundredths it is a binary  *)
(* fraction (a multiple of 1/8), which the float holds exactly; everywhere *)
(* else the float is within its rounding error of the value and far from   *)
(* a tie.  So "%.2f" prints the value modelled here rounded to the nearest *)
(* hundredth, half to even.                                                *)
(***************************************************************************)
EXTENDS Integers, Sequences, FiniteSets, TLC

VARIABLES
    attrib,     \* svg.attrib: the root element's width and height attributes
    children,   \* the children of the root element, in document order
    original,   \* the root's children when the document was first loaded
    options,    \* self.options of the latest invocation
    outcome,    \* how the latest invocation ended
    frame,      \* the locals of the latest invocation of effect()
    pieces,     \* the tuple joined into "d" by the latest invocation, unformatted
    calls       \* the options of the successful invocations, oldest first

vars == <<attrib, children, original, options, outcome, frame, pieces, calls>>

----------------------------------------------------------------------------
(* Bounds *)

\* the largest integer written in a width or height attribute
MaxDim == 3

\* the number of times the effect is run successfully on the document
MaxInvocations == 2

----------------------------------------------------------------------------
(* Floats *)

\* fixed-point units per 1.0: hundredths (the precision of "%.2f") times
\* eighths (the binary fractions the percentages are multiples of)
Scale == 8 * 100

\* the float with the integer value n
Float(n) == n * Scale

\* a * b on floats: (a * b) \div Scale, computed from the whole and the
\* fractional part of a so that no intermediate product leaves 32 bits
Mul(a, b) == (a \div Scale) * b + ((a % Scale) * b) \div Scale

\* a / n on a float and the integer literal n (true division)
Quot(a, n) == a \div n

\* "%.2f" % x as the number of hundredths printed: x rounded to the nearest
\* hundredth, a tie going to the even hundredth.  The sign of a zero is not
\* kept: "-0.00" (printed for -0.0, which a negative width times 0% gives) and
\* "0.00" are both 0 hundredths
Fmt2(x) ==
    LET q == x \div 8
        r == x % 8
    IN  IF r < 4 THEN q
        ELSE IF r > 4 THEN q + 1
        ELSE IF q % 2 = 0 THEN q ELSE q + 1

----------------------------------------------------------------------------
(* Inputs *)

\* a width or height attribute of the root element: absent, text that float()
\* rejects (such as "100%"), or the decimal text of an integer
Absent == [present |-> FALSE, numeric |-> FALSE, value |-> 0]
Unparsable == [present |-> TRUE, numeric |-> FALSE, value |-> 0]
Numeric(n) == [present |-> TRUE, numeric |-> TRUE, value |-> n]

AttrValues == {Absent, Unparsable} \cup {Numeric(n) : n \in 0..MaxDim}

\* the documents the effect is run on: every pair of attribute values, a
\* 1000 x 500 drawing, and a drawing with a negative width
Attribs ==
    [width : AttrValues, height : AttrValues]
        \cup {[width |-> Numeric(1000), height |-> Numeric(500)],
              [width |-> Numeric(0 - 1), height |-> Numeric(1)]}

\* --horizontal and --vertical: 0%, 12.5%, 50% and 62.5% in any pairing, and
\* the pair 10%, 5%
Percents == {Quot(Float(25 * k), 2) : k \in {0, 1, 4, 5}}

OptionValues ==
    [hormargin : Percents, vertmargin : Percents]
        \cup {[hormargin |-> Float(10), vertmargin |-> Float(5)]}

\* an element already in the drawing
Shape == [tag |-> "rect", attrs |-> <<>>, children |-> <<>>]

----------------------------------------------------------------------------
(* The document *)

Element(tag, attrs, kids) == [tag |-> tag, attrs |-> attrs, children |-> kids]

\* inkex.etree.SubElement(parent, tag, attrs) on the list of parent's children:
\* the new element becomes the last child
SubElement(kids, tag, attrs) == Append(kids, Element(tag, attrs, <<>>))

\* NewLayer putting the new group first instead of last
NewLayer_Prepend(kids, LayerName) ==
    <<Element("g", [groupmode |-> "layer", label |-> LayerName], <<>>)>> \o kids

\* NewLayer(svg, LayerName) on the list of svg's children
NewLayer(kids, LayerName) ==
    SubElement(kids, "g", [groupmode |-> "layer", label |-> LayerName])

----------------------------------------------------------------------------
(* The effect *)

\* a conversion that takes text that is not a number as 0 instead of raising
Raises_Lenient(a) == IF ~a.present THEN "KeyError" ELSE "none"

\* the exception float(svg.attrib[name]) raises, "none" if it returns
Raises(a) ==
    IF ~a.present THEN "KeyError"
    ELSE IF ~a.numeric THEN "ValueError"
    ELSE "none"

\* the margin without the division by 100
Margin_NoDivide(DrawingWidth, percent) == Mul(DrawingWidth, percent)

\* DrawingWidth * percent / 100
Margin(DrawingWidth, percent) == Quot(Mul(DrawingWidth, percent), 100)

\* a label that also counts the elements already in the document
LayerName_Numbered(hormargin, vertmargin) ==
    [text |-> <<"Overscan ", "%x", "%">>,
     hor |-> Fmt2(hormargin) + Len(children), vert |-> Fmt2(vertmargin)]

\* "Overscan %.2f%%x%.2f%%" % (hormargin, vertmargin): the text around the
\* two numbers and the hundredths printed for each
LayerName(hormargin, vertmargin) ==
    [text |-> <<"Overscan ", "%x", "%">>,
     hor |-> Fmt2(hormargin), vert |-> Fmt2(vertmargin)]

\* simplestyle.formatStyle({"stroke" : "none", "fill" : "#808080"})
Style == {<<"stroke", "none">>, <<"fill", "#808080">>}

Piece(fmt, args) == [fmt |-> fmt, args |-> args]

\* the outer subpath with the fourth side drawn before closing
OuterSubpath_FourSides(DrawingWidth, DrawingHeight) ==
    << Piece("M%.2f %.2f", <<Float(0), Float(0)>>),
       Piece("H%.2f", <<DrawingWidth>>),
       Piece("V%.2f", <<DrawingHeight>>),
       Piece("H%.2f", <<Float(0)>>),
       Piece("V%.2f", <<Float(0)>>),
       Piece("Z", <<>>) >>

\* the first five strings of the "d" tuple, before formatting
OuterSubpath(DrawingWidth, DrawingHeight) ==
    << Piece("M%.2f %.2f", <<Float(0), Float(0)>>),
       Piece("H%.2f", <<DrawingWidth>>),
       Piece("V%.2f", <<DrawingHeight>>),
       Piece("H%.2f", <<Float(0)>>),
       Piece("Z", <<>>) >>

\* the inner subpath drawn in the direction of the outer one
InnerSubpath_SameDirection(DrawingWidth, DrawingHeight, HorMargin, VertMargin) ==
    << Piece("M %.2f %.2f", <<HorMargin, VertMargin>>),
       Piece("H%.2f", <<DrawingWidth - HorMargin>>),
       Piece("V%.2f", <<DrawingHeight - VertMargin>>),
       Piece("H%.2f", <<HorMargin>>),
       Piece("Z", <<>>) >>

\* the inner subpath with the two margins exchanged
InnerSubpath_Exchanged(DrawingWidth, DrawingHeight, HorMargin, VertMargin) ==
    << Piece("M %.2f %.2f", <<VertMargin, HorMargin>>),
       Piece("V%.2f", <<DrawingHeight - HorMargin>>),
       Piece("H%.2f", <<DrawingWidth - VertMargin>>),
       Piece("V%.2f", <<HorMargin>>),
       Piece("Z", <<>>) >>

\* the last five strings of the "d" tuple, before formatting
InnerSubpath(DrawingWidth, DrawingHeight, HorMargin, VertMargin) ==
    << Piece("M %.2f %.2f", <<HorMargin, VertMargin>>),
       Piece("V%.2f", <<DrawingHeight - VertMargin>>),
       Piece("H%.2f", <<DrawingWidth - HorMargin>>),
       Piece("V%.2f", <<VertMargin>>),
       Piece("Z", <<>>) >>

\* the characters of the path data: a command letter, a space, or a number
\* printed with two decimals (n hundredths)
Cmd(c) == [k |-> c, n |-> 0]
Sp == [k |-> " ", n |-> 0]
Num(x) == [k |-> "num", n |-> Fmt2(x)]

\* fmt % args
Format(p) ==
    CASE p.fmt = "M%.2f %.2f" -> <<Cmd("M"), Num(p.args[1]), Sp, Num(p.args[2])>>
      [] p.fmt = "M %.2f %.2f" -> <<Cmd("M"), Sp, Num(p.args[1]), Sp, Num(p.args[2])>>
      [] p.fmt = "H%.2f" -> <<Cmd("H"), Num(p.args[1])>>
      [] p.fmt = "V%.2f" -> <<Cmd("V"), Num(p.args[1])>>
      [] p.fmt = "Z" -> <<Cmd("Z")>>

\* "".join(strings)
RECURSIVE Join(_)
Join(strings) ==
    IF strings = <<>> THEN <<>> ELSE Head(strings) \o Join(Tail(strings))

\* the value of the "d" attribute
PathData(ps) == Join([i \in 1..Len(ps) |-> Format(ps[i])])

\* the locals of a run that raised before computing them
NoFrame == [DrawingWidth |-> 0, DrawingHeight |-> 0, HorMargin |-> 0, VertMargin |-> 0]

\* one run of the script on the document: OverscanEffect().affect() with the
\* options opts
Effect(opts) ==
    /\ Len(calls) < MaxInvocations
    /\ options' = opts
    /\ UNCHANGED <<attrib, original>>
    /\ IF Raises(attrib.width) # "none" \/ Raises(attrib.height) # "none"
       THEN /\ outcome' = IF Raises(attrib.width) # "none"
                          THEN Raises(attrib.width)
                          ELSE Raises(attrib.height)
            /\ frame' = NoFrame
            /\ pieces' = <<>>
            /\ UNCHANGED <<children, calls>>
       ELSE LET DrawingWidth == Float(attrib.width.value)
                DrawingHeight == Float(attrib.height.value)
                HorMargin == Margin(DrawingWidth, opts.hormargin)
                VertMargin == Margin(DrawingWidth, opts.vertmargin)
                WithLayer ==
                    NewLayer(children, LayerName(opts.hormargin, opts.vertmargin))
                TheLayer == WithLayer[Len(WithLayer)]
                ps == OuterSubpath(DrawingWidth, DrawingHeight)
                        \o InnerSubpath(DrawingWidth, DrawingHeight, HorMargin, VertMargin)
                Filled ==
                    [TheLayer EXCEPT !.children =
                        SubElement(@, "path", [style |-> Style, d |-> PathData(ps)])]
            IN  /\ outcome' = "ok"
                /\ frame' = [DrawingWidth |-> DrawingWidth,
                             DrawingHeight |-> DrawingHeight,
                             HorMargin |-> HorMargin,
                             VertMargin |-> VertMargin]
                /\ pieces' = ps
                /\ children' = [WithLayer EXCEPT ![Len(WithLayer)] = Filled]
                /\ calls' = Append(calls, opts)

Init ==
    /\ attrib \in Attribs
    /\ children = <<Shape>>
    /\ original = children
    /\ options = [hormargin |-> Float(0), vertmargin |-> Float(0)]
    /\ outcome = "none"
    /\ frame = NoFrame
    /\ pieces = <<>>
    /\ calls = <<>>

Next == \E opts \in OptionValues : Effect(opts)

Spec == Init /\ [][Next]_vars

----------------------------------------------------------------------------
(* Reading a path back: the SVG path mini-language *)

\* the command letter a format string of the "d" tuple starts with
Letter(fmt) ==
    CASE fmt \in {"M%.2f %.2f", "M %.2f %.2f"} -> "M"
      [] fmt = "H%.2f" -> "H"
      [] fmt = "V%.2f" -> "V"
      [] fmt = "Z" -> "Z"

\* the pieces as path characters with their arguments left unrounded
\* (fixed-point floats instead of hundredths)
RawTokens(ps) ==
    Join([i \in 1..Len(ps) |->
            <<Cmd(Letter(ps[i].fmt))>>
                \o [j \in 1..Len(ps[i].args) |-> [k |-> "num", n |-> ps[i].args[j]]]])

\* the command letters of a path, in order
Commands(d) ==
    LET cs == SelectSeq(d, LAMBDA t : t.k \notin {" ", "num"})
    IN  [i \in 1..Len(cs) |-> cs[i].k]

\* the closed subpaths of a path, each as the sequence of points it visits:
\* M x y starts a subpath at (x, y), H x and V y draw to a new point keeping
\* the other coordinate, Z closes the subpath
RECURSIVE Walk(_, _, _, _, _)
Walk(T, i, cur, sub, done) ==
    IF i > Len(T) THEN done
    ELSE CASE T[i].k = "M" ->
                LET p == <<T[i + 1].n, T[i + 2].n>>
                IN  Walk(T, i + 3, p, <<p>>, done)
           [] T[i].k = "H" ->
                LET p == <<T[i + 1].n, cur[2]>>
                IN  Walk(T, i + 2, p, Append(sub, p), done)
           [] T[i].k = "V" ->
                LET p == <<cur[1], T[i + 1].n>>
                IN  Walk(T, i + 2, p, Append(sub, p), done)
           [] T[i].k = "Z" ->
                Walk(T, i + 1, sub[1], <<>>, Append(done, sub))

Subpaths(d) ==
    Walk(SelectSeq(d, LAMBDA t : t.k # " "), 1, <<0, 0>>, <<>>, <<>>)

Abs(x) == IF x < 0 THEN 0 - x ELSE x

RECURSIVE GCD(_, _)
GCD(a, b) == IF b = 0 THEN a ELSE GCD(b, a % b)

RECURSIVE GCDOfPoints(_)
GCDOfPoints(poly) ==
    IF poly = <<>> THEN 0
    ELSE GCD(GCD(Abs(poly[1][1]), Abs(poly[1][2])), GCDOfPoints(Tail(poly)))

\* twice the signed area of a polygon (the shoelace sum)
RECURSIVE Shoelace(_, _)
Shoelace(poly, i) ==
    IF i > Len(poly) THEN 0
    ELSE LET a == poly[i]
             b == poly[(i % Len(poly)) + 1]
         IN  a[1] * b[2] - b[1] * a[2] + Shoelace(poly, i + 1)

\* the sign of the signed area of a polygon: 1, -1, or 0 for no area.  The
\* coordinates are first divided by their common divisor, which keeps the sign
Orientation(poly) ==
    LET g == GCDOfPoints(poly)
        small == IF g = 0 THEN poly
                 ELSE [i \in 1..Len(poly) |-> <<poly[i][1] \div g, poly[i][2] \div g>>]
        area == Shoelace(small, 1)
    IN  IF area > 0 THEN 1 ELSE IF area < 0 THEN 0 - 1 ELSE 0

----------------------------------------------------------------------------
(* The latest invocation *)

Succeeded == outcome = "ok"

PositiveCanvas == frame.DrawingWidth > 0 /\ frame.DrawingHeight > 0

\* the width or the height attribute is absent or is not a number
BadDimension ==
    \E a \in {attrib.width, attrib.height} : ~a.present \/ ~a.numeric

\* a percentage in [0, 50]
InRange(percent) == Float(0) <= percent /\ percent <= Float(50)

\* the corners of the rectangles the latest invocation drew, unrounded
OuterCorners == Subpaths(RawTokens(pieces))[1]
InnerCorners == Subpaths(RawTokens(pieces))[2]

\* the layer the latest invocation added, and the path data in it
LastLayer == children[Len(children)]
LastPathData == LastLayer.children[1].attrs.d

\* the layer the i-th successful invocation added
LayerOfCall(i) == children[Len(original) + i]

----------------------------------------------------------------------------
(* Claims *)

\* C1: for a positive width and height and percentages in [0, 50], the inner
\* rectangle lies inside the canvas: every corner has 0 <= x <= width and
\* 0 <= y <= height.
C1_InnerInsideCanvas ==
    (Succeeded /\ PositiveCanvas
        /\ InRange(options.hormargin) /\ InRange(options.vertmargin))
    => \A i \in 1..Len(InnerCorners) :
          /\ 0 <= InnerCorners[i][1] /\ InnerCorners[i][1] <= frame.DrawingWidth
          /\ 0 <= InnerCorners[i][2] /\ InnerCorners[i][2] <= frame.DrawingHeight

ProperInset ==
    /\ Float(0) <= options.hormargin /\ options.hormargin < Float(50)
    /\ Float(0) <= options.vertmargin
    /\ Mul(frame.DrawingWidth, options.vertmargin) < 50 * frame.DrawingHeight

C3_NonPositiveRejected ==
    (/\ ~BadDimension
     /\ (attrib.width.value <= 0 \/ attrib.height.value <= 0)
     /\ outcome # "none")
    => (outcome \in {"KeyError", "ValueError"} /\ children = original)

\* C4: when the width or height attribute is absent or is not a number, the
\* run ends in an error before the layer is created and before any path is
\* built, and the document tree is unchanged.
C4_BadDimensionFailsFirst ==
    (BadDimension /\ outcome # "none")
    => /\ outcome \in {"KeyError", "ValueError"}
       /\ pieces = <<>>
       /\ children = original
       /\ calls = <<>>

\* a run that read the width and failed on a height that is not a number
C4_Witness ==
    /\ attrib.width.present /\ attrib.width.numeric
    /\ attrib.height = Unparsable
    /\ outcome = "ValueError"

\* C5: a successful run appends exactly one group, marked as a layer and
\* carrying the label, as the last child of the root, with exactly one path
\* child; everything that was in the document stays as it was; so after n
\* successful runs the root has n more children, each with one path child.
C5_OneLayerAppended ==
    [][outcome' = "ok" =>
        /\ Len(children') = Len(children) + 1
        /\ SubSeq(children', 1, Len(children)) = children
        /\ attrib' = attrib
        /\ LET g == children'[Len(children')]
           IN  /\ g.tag = "g"
               /\ g.attrs.groupmode = "layer"
               /\ g.attrs.label.text = <<"Overscan ", "%x", "%">>
               /\ g.attrs.label.hor = Fmt2(options'.hormargin)
               /\ g.attrs.label.vert = Fmt2(options'.vertmargin)
               /\ Len(g.children) = 1
               /\ g.children[1].tag = "path"
               /\ g.children[1].children = <<>>
        /\ Len(children') = Len(original') + Len(calls')
        /\ \A i \in (Len(original') + 1)..Len(children') :
              /\ children'[i].tag = "g"
              /\ Len(children'[i].children) = 1
              /\ children'[i].children[1].tag = "path"
      ]_vars

\* a second successful run on a document that had a shape in it
C5_Witness ==
    /\ Succeeded
    /\ original # <<>>
    /\ Len(calls) = 2
    /\ calls[1] # calls[2]

\* C6: the label and the path data depend only on the width, the height and
\* the two percentages: two successful runs with the same options on the
\* document add equal layers, whatever ran before them.
C6_SameInputsSameOutput ==
    \A i, j \in 1..Len(calls) :
        calls[i] = calls[j] =>
            /\ LayerOfCall(i).attrs.label = LayerOfCall(j).attrs.label
            /\ LayerOfCall(i).children[1].attrs.d = LayerOfCall(j).children[1].attrs.d
            /\ LayerOfCall(i) = LayerOfCall(j)

\* the same options run twice, the second time on a document that already
\* holds the first run's layer
C6_Witness ==
    /\ Len(calls) = 2
    /\ calls[1] = calls[2]
    /\ calls[1].hormargin > 0

C8_HalfOrMoreCollapses ==
    (/\ ~BadDimension
     /\ attrib.width.value > 0 /\ attrib.height.value > 0
     /\ outcome # "none"
     /\ (options.hormargin >= Float(50) \/ options.vertmargin >= Float(50)))
    => /\ Succeeded
       /\ InnerCorners[1] = <<frame.HorMargin, frame.VertMargin>>
       /\ frame.HorMargin = Mul(frame.DrawingWidth, options.hormargin) \div 100
       /\ options.hormargin >= Float(50) =>
             frame.DrawingWidth - 2 * frame.HorMargin <= 0
       /\ options.vertmargin >= Float(50) =>
             frame.DrawingHeight - 2 * frame.VertMargin <= 0

\* the command letters and the points of the path the script is written to
\* build, with each coordinate as "%.2f" prints it
ExpectedCommands == <<"M", "H", "V", "H", "Z", "M", "V", "H", "V", "Z">>

ExpectedOuter ==
    << <<0, 0>>,
       <<Fmt2(frame.DrawingWidth), 0>>,
       <<Fmt2(frame.DrawingWidth), Fmt2(frame.DrawingHeight)>>,
       <<0, Fmt2(frame.DrawingHeight)>> >>

ExpectedInner ==
    << <<Fmt2(frame.HorMargin), Fmt2(frame.VertMargin)>>,
       <<Fmt2(frame.HorMargin), Fmt2(frame.DrawingHeight - frame.VertMargin)>>,
       <<Fmt2(frame.DrawingWidth - frame.HorMargin),
         Fmt2(frame.DrawingHeight - frame.VertMargin)>>,
       <<Fmt2(frame.DrawingWidth - frame.HorMargin), Fmt2(frame.VertMargin)>> >>

\* C9: the path data is exactly two closed subpaths: M,H,V,H,Z through (0,0),
\* (width,0), (width,height), (0,height), then M,V,H,V,Z through (hm,vm),
\* (hm,height-vm), (width-hm,height-vm), (width-hm,vm), each coordinate
\* printed with two decimals, and no other command.
C9_TwoClosedSubpaths ==
    Succeeded =>
        /\ Commands(LastPathData) = ExpectedCommands
        /\ Subpaths(LastPathData) = <<ExpectedOuter, ExpectedInner>>
        /\ LastPathData[Len(LastPathData)].k = "Z"

\* a run whose margins fall halfway between two hundredths, on a canvas with
\* a positive band on both axes
C9_Witness ==
    /\ Succeeded /\ PositiveCanvas
    /\ frame.HorMargin > 0
    /\ frame.HorMargin % 8 = 4
    /\ frame.VertMargin % 8 = 4
    /\ frame.VertMargin < frame.DrawingHeight - frame.VertMargin

\* the inner rectangle keeps its left edge left of its right edge, inside the
\* canvas; likewise its top and bottom edge
HorizontallyValid ==
    /\ 0 <= InnerCorners[1][1]
    /\ InnerCorners[1][1] <= InnerCorners[3][1]
    /\ InnerCorners[3][1] <= frame.DrawingWidth

VerticallyValid ==
    /\ 0 <= InnerCorners[1][2]
    /\ InnerCorners[1][2] <= InnerCorners[2][2]
    /\ InnerCorners[2][2] <= frame.DrawingHeight

====
